---- MODULE Spec2Model ----
(***************************************************************************)
(* Presigned-upload coordination protocol of the Disco music client:       *)
(*   - the upload-url Lambda      (RequestUploadGrant)                      *)
(*   - the upload-complete Lambda (ConfirmUpload)                           *)
(*   - the single-file upload modal  (music-upload-modal.tsx)               *)
(*   - the album/single upload modal (music-upload-modal-enhanced.tsx)      *)
(*   - the music player              (MusicPlayerProvider)                  *)
(* Optional JavaScript values (undefined / null / missing field) are       *)
(* sequences of length at most one: <<>> is undefined, <<v>> is v.          *)
(***************************************************************************)
EXTENDS Integers, Sequences, FiniteSets, TLC

VARIABLES
    \* ---- the two Lambda handlers and object storage
    op,          \* which handler produced `response`: "none", "grant", "confirm", "put"
    event,       \* the event the handler was invoked with
    response,    \* the handler's return value
    urls,        \* signed URLs issued so far
    s3,          \* objects in the bucket
    saved,       \* arguments of the saveMusicRecord calls, in order
    \* ---- single-file upload modal
    platform, file, authToken, pc, uploadState, uploadAbortRef, xhr, net, cancelled,
    \* ---- album upload modal
    album, apc, idx, uploadStatus, progress, errorMessage, anet, bucket, closed,
    \* ---- music player (MusicPlayerProvider)
    soundRef,    \* soundRef.current: the sound the player holds, if any
    loaded,      \* the sounds that were created and not unloaded
    plays,       \* the playSong calls so far: the song of each and where it stands
    stopping,    \* the sound a stop call is unloading, if a stop call is awaiting
    currentSong, isPlaying

serverVars == <<op, event, response, urls, s3, saved>>
singleVars == <<platform, file, authToken, pc, uploadState, uploadAbortRef, xhr, net, cancelled>>
albumVars  == <<album, apc, idx, uploadStatus, progress, errorMessage, anet, bucket, closed>>
playerVars == <<soundRef, loaded, plays, stopping, currentSong, isPlaying>>
vars == <<serverVars, singleVars, albumVars, playerVars>>

(***************************************************************************)
(* Bounds of the model                                                     *)
(***************************************************************************)
NumUsers   == 2      \* identities that hold a valid token
MaxGrants  == 1      \* signed URLs issued in one behaviour of Spec
MaxRecords == 1      \* saveMusicRecord calls in one behaviour of Spec
MaxTracks  == 2      \* songs of an album
MaxCalls == 2        \* signed URLs issued in SpecCalls, records handed over in SpecConfirms
MaxPlays == 2        \* playSong calls in one behaviour of SpecPlayer

Users == 1..NumUsers

(***************************************************************************)
(* JavaScript helpers                                                      *)
(***************************************************************************)
None == <<>>
Some(x) == <<x>>

\* !!v for a string-valued optional: undefined and '' are falsy
TruthyStr(o) == o # None /\ o[1] # ""
\* !!v for a number-valued optional: undefined and 0 are falsy
TruthyNum(o) == o # None /\ o[1] # 0

\* String.prototype.includes
Includes(s, w) == \E i \in 1..(Len(s) - Len(w) + 1) : SubSeq(s, i, i + Len(w) - 1) = w
\* String.prototype.startsWith
StartsWith(s, w) == Len(s) >= Len(w) /\ SubSeq(s, 1, Len(w)) = w
\* String.prototype.slice(n)
Slice(s, n) == SubSeq(s, n + 1, Len(s))

Return(v) == [ok |-> TRUE, val |-> v, msg |-> ""]
Throw(m)  == [ok |-> FALSE, val |-> None, msg |-> m]

(***************************************************************************)
(* upload-url Lambda (RequestUploadGrant)                                  *)
(***************************************************************************)
BUCKET_NAME == "disco-music-bucket"
AWS_REGION == "us-east-1"
PRESIGNED_URL_EXPIRY == 900
MAX_FILE_SIZE == 104857600

\* The bearer tokens that jwt.verify accepts under JWT_SECRET, with their payloads.
TokenOf(u) == "tok-u" \o ToString(u)
TokenWithoutId == "tok-noid"

\* jwt.verify(actualToken, JWT_SECRET): the payload, or an exception
jwtVerify(actualToken) ==
    IF \E u \in Users : actualToken = TokenOf(u)
    THEN Return([id |-> Some(CHOOSE u \in Users : actualToken = TokenOf(u))])
    ELSE IF actualToken = TokenWithoutId
    THEN Return([id |-> None])
    ELSE Throw("jwt malformed")

\* verifyToken(token)
verifyToken(token) ==
    IF ~TruthyStr(token)
    THEN Throw("No authorization token provided")
    ELSE LET actualToken == IF StartsWith(token[1], "Bearer ")
                            THEN Slice(token[1], 7)
                            ELSE token[1]
             v == jwtVerify(actualToken)
         IN  IF v.ok THEN v ELSE Throw("Invalid or expired token")

ALLOWED_TYPES ==
    { "audio/mpeg", "audio/mp3", "audio/mp4", "audio/m4a", "audio/wav", "audio/x-wav",
      "audio/wave", "audio/aac", "audio/ogg", "audio/flac", "audio/x-flac", "audio/webm",
      "application/octet-stream", "image/jpeg", "image/jpg", "image/png", "image/webp",
      "image/gif", "application/json" }

\* validateRequest(body); body = None is the destructuring of null/undefined
validateRequest(body) ==
    IF body = None
    THEN Throw("Cannot destructure property 'fileName' of 'body' as it is undefined.")
    ELSE LET b == body[1] IN
         IF ~TruthyStr(b.fileName) THEN Throw("fileName is required")
         ELSE IF ~TruthyStr(b.fileType) THEN Throw("fileType is required")
         ELSE IF TruthyNum(b.fileSize) /\ b.fileSize[1] > MAX_FILE_SIZE
         THEN Throw("File size exceeds maximum allowed (100MB)")
         ELSE IF b.fileType[1] \notin ALLOWED_TYPES
         THEN Throw("Unsupported file type: " \o b.fileType[1])
         ELSE Return([fileName |-> b.fileName[1], fileType |-> b.fileType[1],
                      fileSize |-> b.fileSize])

KeyChars ==
    { "a","b","c","d","e","f","g","h","i","j","k","l","m","n","o","p","q","r","s","t",
      "u","v","w","x","y","z","A","B","C","D","E","F","G","H","I","J","K","L","M","N",
      "O","P","Q","R","S","T","U","V","W","X","Y","Z","0","1","2","3","4","5","6","7",
      "8","9",".","_","-" }

\* a key that takes the file name as it is
Sanitize_Keep(s) == s

\* fileName.replace(/[^a-zA-Z0-9._-]/g, '_')
RECURSIVE SanitizeFrom(_, _)
SanitizeFrom(s, i) ==
    IF i > Len(s) THEN ""
    ELSE (IF SubSeq(s, i, i) \in KeyChars THEN SubSeq(s, i, i) ELSE "_") \o SanitizeFrom(s, i + 1)
Sanitize(s) == SanitizeFrom(s, 1)

\* generateS3Key(userId, fileName), with the values Date.now() and Math.random() gave
generateS3Key(userId, fileName, timestamp, randomString) ==
    "music/" \o ToString(userId) \o "/" \o ToString(timestamp) \o "-" \o randomString
        \o "-" \o Sanitize(fileName)

\* JSON.parse(event.body) when the body is a string; the body itself otherwise
ParseBody(body) ==
    CASE body.syntax = "truncated" -> Throw("Unexpected end of JSON input")
      [] body.syntax = "garbled"   -> Throw("Unexpected token b in JSON at position 1")
      [] body.syntax = "null"      -> Return(None)
      [] OTHER                     -> Return(Some(body.json))

\* the catch block of the upload-url handler
GrantStatusOf(message) ==
    IF Includes(message, "token") \/ message = "Unauthorized" THEN 401
    ELSE IF Includes(message, "required") \/ Includes(message, "exceeds")
            \/ Includes(message, "Unsupported") THEN 400
    ELSE 500

Response(status, err, url, key, expires) ==
    [statusCode |-> status, error |-> err, uploadUrl |-> url, key |-> key,
     expiresIn |-> expires, music |-> None]

GrantError(message) ==
    Response(GrantStatusOf(message),
             Some(IF message = "" THEN "Internal server error" ELSE message),
             None, None, None)

\* the key the handler signs: body.s3Key as it is, or a generated one
GrantKey(b, userId, timestamp, randomString) ==
    IF TruthyStr(b.s3Key) THEN b.s3Key[1]
    ELSE generateS3Key(userId, b.fileName[1], timestamp, randomString)

\* getSignedUrl(s3Client, new PutObjectCommand({...}), {expiresIn})
SignedUrl(key, fileType, userId, fileName) ==
    [bucket |-> BUCKET_NAME, key |-> key, contentType |-> fileType,
     userId |-> ToString(userId), originalFileName |-> fileName,
     expiresIn |-> PRESIGNED_URL_EXPIRY]

\* exports.handler of the upload-url Lambda. env: what the environment supplied
\* (Date.now(), Math.random(), whether the signer raised).
GrantHandler(ev, env) ==
    LET parsed == ParseBody(ev.body) IN
    IF ~parsed.ok THEN GrantError(parsed.msg)
    ELSE
    LET body == parsed.val
        user == verifyToken(ev.authorization) IN
    IF ~user.ok THEN GrantError(user.msg)
    ELSE IF ~TruthyNum(user.val.id)
    THEN Response(401, Some("Unauthorized"), None, None, None)
    ELSE
    LET valid == validateRequest(body) IN
    IF ~valid.ok THEN GrantError(valid.msg)
    ELSE
    LET key == GrantKey(body[1], user.val.id[1], env.timestamp, env.randomString) IN
    IF ~env.signerOk THEN GrantError("Could not load credentials from any providers")
    ELSE Response(200, None,
                  Some(SignedUrl(key, valid.val.fileType, user.val.id[1], valid.val.fileName)),
                  Some(key), Some(PRESIGNED_URL_EXPIRY))


(***************************************************************************)
(* Object storage, as the two Lambdas and the signed URL see it            *)
(***************************************************************************)
HasObject(store, key) == \E o \in store : o.key = key
ObjectAt(store, key) == CHOOSE o \in store : o.key = key

\* PUT on a signed URL that storage accepted: the object named and described by
\* the signed PutObjectCommand (Key, ContentType, Metadata) replaces any older one.
PutObject(store, url, size) ==
    {o \in store : o.key # url.key} \cup
        {[key |-> url.key, size |-> size, contentType |-> url.contentType,
          metadata |-> [userid |-> url.userId, originalfilename |-> url.originalFileName]]}

(***************************************************************************)
(* upload-complete Lambda (ConfirmUpload)                                  *)
(***************************************************************************)
\* verifyS3Object without the HeadObject call: the key is taken on trust
verifyS3Object_Trusting(store, key, headOk) ==
    Return([size |-> 0, contentType |-> "application/octet-stream",
            metadata |-> [userid |-> 0, originalfilename |-> ""]])

\* verifyS3Object(key): HeadObject, any failure of which is reported as not found
verifyS3Object(store, key, headOk) ==
    IF headOk /\ HasObject(store, key)
    THEN LET o == ObjectAt(store, key) IN
         Return([size |-> o.size, contentType |-> o.contentType, metadata |-> o.metadata])
    ELSE Throw("File not found in S3")

\* the last segment of key.split('/')
LastSegment(s) ==
    LET slashes == {i \in 1..Len(s) : SubSeq(s, i, i) = "/"} IN
    IF slashes = {} THEN s
    ELSE Slice(s, CHOOSE i \in slashes : \A j \in slashes : j <= i)

\* fileName.replace(/\.[^.]+$/, ''): drop the last ".ext" when ext is not empty
StripExtension(s) ==
    LET dots == {i \in 1..Len(s) : SubSeq(s, i, i) = "."} IN
    IF dots = {} THEN s
    ELSE LET last == CHOOSE i \in dots : \A j \in dots : j <= i IN
         IF last = Len(s) THEN s ELSE SubSeq(s, 1, last - 1)

\* String.prototype.trim for the blanks the model's names contain
RECURSIVE TrimLeft(_)
TrimLeft(s) == IF Len(s) > 0 /\ SubSeq(s, 1, 1) = " " THEN TrimLeft(Slice(s, 1)) ELSE s
RECURSIVE TrimRight(_)
TrimRight(s) ==
    IF Len(s) > 0 /\ SubSeq(s, Len(s), Len(s)) = " "
    THEN TrimRight(SubSeq(s, 1, Len(s) - 1)) ELSE s
Trim(s) == TrimLeft(TrimRight(s))

\* extractMetadata(fileName, s3Metadata)
extractMetadata(fileName, s3Metadata) ==
    LET nameWithoutExt == StripExtension(fileName)
        seps == {i \in 1..(Len(nameWithoutExt) - 2) : SubSeq(nameWithoutExt, i, i + 2) = " - "}
        \* split(' - ') has two parts when the separator occurs once
        two == Cardinality(seps) = 1
        at == CHOOSE i \in seps : TRUE
    IN  [title  |-> IF two THEN Trim(SubSeq(nameWithoutExt, at + 3, Len(nameWithoutExt)))
                    ELSE nameWithoutExt,
         artist |-> IF two THEN Trim(SubSeq(nameWithoutExt, 1, at - 1)) ELSE "Unknown Artist",
         originalFileName |-> IF s3Metadata.originalfilename # "" THEN s3Metadata.originalfilename
                              ELSE fileName]

PublicUrl(key) == "https://" \o BUCKET_NAME \o ".s3." \o AWS_REGION \o ".amazonaws.com/" \o key

\* the record handed to saveMusicRecord
MusicRecord(userId, key, fileName, s3Info, id) ==
    LET metadata == extractMetadata(IF TruthyStr(fileName) THEN fileName[1] ELSE LastSegment(key),
                                    s3Info.metadata)
    IN  [id |-> id, userId |-> userId, title |-> metadata.title, artist |-> metadata.artist,
         originalFileName |-> metadata.originalFileName, s3Key |-> key,
         s3Bucket |-> BUCKET_NAME, fileSize |-> s3Info.size,
         contentType |-> s3Info.contentType, publicUrl |-> PublicUrl(key), status |-> "active"]

\* the catch block of the upload-complete handler
ConfirmStatusOf(message) ==
    IF Includes(message, "token") \/ message = "Unauthorized" THEN 401
    ELSE IF Includes(message, "required") \/ Includes(message, "not found") THEN 400
    ELSE 500

ConfirmError(status, message) ==
    [statusCode |-> status, error |-> Some(IF message = "" THEN "Internal server error" ELSE message),
     uploadUrl |-> None, key |-> None, expiresIn |-> None, music |-> None]

\* a handler that verifies the object but records the size and type the client claims
ConfirmHandler_ClientClaims(ev, store, env) ==
    LET parsed == ParseBody(ev.body)
        user == verifyToken(ev.authorization)
        fail == [response |-> ConfirmError(500, "Internal server error"), saves |-> <<>>] IN
    IF ~parsed.ok \/ ~user.ok THEN fail
    ELSE IF parsed.val = None \/ ~TruthyNum(user.val.id) THEN fail
    ELSE IF ~TruthyStr(parsed.val[1].key) THEN fail
    ELSE
    LET b == parsed.val[1]
        s3Info == verifyS3Object(store, b.key[1], env.headOk) IN
    IF ~s3Info.ok THEN fail
    ELSE
    LET claimed == [s3Info.val EXCEPT !.size = IF b.fileSize = None THEN @ ELSE b.fileSize[1],
                                      !.contentType = IF b.fileType = None THEN @ ELSE b.fileType[1]]
        musicRecord == MusicRecord(user.val.id[1], b.key[1], b.fileName, claimed, env.id) IN
    [response |-> [statusCode |-> 200, error |-> None, uploadUrl |-> None, key |-> None,
                   expiresIn |-> None,
                   music |-> Some([id |-> musicRecord.id, title |-> musicRecord.title,
                                   artist |-> musicRecord.artist, url |-> musicRecord.publicUrl])],
     saves |-> <<musicRecord>>]

\* exports.handler of the upload-complete Lambda: the response and the records
\* handed to saveMusicRecord (none or one). env: the generated id, whether
\* HeadObject answered.
ConfirmHandler(ev, store, env) ==
    LET parsed == ParseBody(ev.body)
        fail(r) == [response |-> r, saves |-> <<>>] IN
    IF ~parsed.ok THEN fail(ConfirmError(ConfirmStatusOf(parsed.msg), parsed.msg))
    ELSE
    LET body == parsed.val
        user == verifyToken(ev.authorization) IN
    IF ~user.ok THEN fail(ConfirmError(ConfirmStatusOf(user.msg), user.msg))
    ELSE IF ~TruthyNum(user.val.id) THEN fail(ConfirmError(401, "Unauthorized"))
    ELSE IF body = None
    THEN LET m == "Cannot destructure property 'key' of 'body' as it is undefined."
         IN  fail(ConfirmError(ConfirmStatusOf(m), m))
    ELSE IF ~TruthyStr(body[1].key) THEN fail(ConfirmError(400, "key is required"))
    ELSE
    LET key == body[1].key[1]
        s3Info == verifyS3Object(store, key, env.headOk) IN
    IF ~s3Info.ok THEN fail(ConfirmError(ConfirmStatusOf(s3Info.msg), s3Info.msg))
    ELSE
    LET musicRecord == MusicRecord(user.val.id[1], key, body[1].fileName, s3Info.val, env.id) IN
    [response |-> [statusCode |-> 200, error |-> None, uploadUrl |-> None, key |-> None,
                   expiresIn |-> None,
                   music |-> Some([id |-> musicRecord.id, title |-> musicRecord.title,
                                   artist |-> musicRecord.artist, url |-> musicRecord.publicUrl])],
     saves |-> <<musicRecord>>]


(***************************************************************************)
(* Requests the environment may send to the two Lambdas                    *)
(***************************************************************************)
Timestamps    == {1700000000, 1700000001}     \* values of Date.now() (model clock)
RandomStrings == {"k3x9q", "p0z"}             \* values of Math.random().toString(36).substring(7)
RecordIds     == {"music_1700000000_ab12cd34e", "music_1700000001_zz98yx76w"}

Tokens == {TokenOf(u) : u \in Users} \cup {TokenWithoutId, "tok-expired", "not.a.jwt"}

\* event.headers?.Authorization || event.headers?.authorization
AuthHeaders ==
    {None, Some(""), Some("Bearer "), Some("Basic dXNlcjpwdw==")}
        \cup {Some("Bearer " \o t) : t \in Tokens} \cup {Some(t) : t \in Tokens}

BearerOf(u) == Some("Bearer " \o TokenOf(u))

NoJson == [fileName |-> None, fileType |-> None, fileSize |-> None, s3Key |-> None,
           key |-> None, userId |-> None]

GrantJson(fileName, fileType, fileSize, s3Key, userId) ==
    [fileName |-> fileName, fileType |-> fileType, fileSize |-> fileSize, s3Key |-> s3Key,
     key |-> None, userId |-> userId]

ConfirmJson(key, fileName, fileSize, fileType, userId) ==
    [fileName |-> fileName, fileType |-> fileType, fileSize |-> fileSize, s3Key |-> None,
     key |-> key, userId |-> userId]

JsonBody(j) == [syntax |-> "json", json |-> j]
\* bodies that are no JSON object: a string JSON.parse rejects, or no body at all
BrokenBodies == {[syntax |-> x, json |-> NoJson] : x \in {"truncated", "garbled", "null"}}

FileNames == {None, Some(""), Some("track.mp3"), Some("my song.mp3"), Some("x.exe")}
FileTypes == {None, Some(""), Some("audio/mpeg"), Some("application/octet-stream"),
              Some("video/mp4"), Some("application/x-token")}
FileSizes == {None, Some(0), Some(4000000), Some(MAX_FILE_SIZE), Some(MAX_FILE_SIZE + 1)}
ExplicitKeys == {None, Some(""), Some("music/my-album/01. track.mp3")}
                    \cup {Some("music/" \o ToString(u) \o "/track.mp3") : u \in Users}

GrantEvents ==
    [authorization : AuthHeaders,
     body : BrokenBodies \cup
            {JsonBody(GrantJson(n, t, z, k, None)) :
                 n \in FileNames, t \in FileTypes, z \in FileSizes, k \in ExplicitKeys}]

GrantEnvs == [timestamp : Timestamps, randomString : RandomStrings, signerOk : BOOLEAN]

NoEvent == [authorization |-> None, body |-> [syntax |-> "null", json |-> NoJson]]
NoResponse == [statusCode |-> 0, error |-> None, uploadUrl |-> None, key |-> None,
               expiresIn |-> None, music |-> None]

(***************************************************************************)
(* Actions of the server side                                              *)
(***************************************************************************)
\* one invocation of the upload-url Lambda
RequestUploadGrant(ev, env) ==
    /\ op' = "grant"
    /\ event' = ev
    /\ response' = GrantHandler(ev, env)
    /\ urls' = urls \cup {response'.uploadUrl[i] : i \in 1..Len(response'.uploadUrl)}
    /\ UNCHANGED <<s3, saved>>

\* one invocation of the upload-complete Lambda
ConfirmUpload(ev, env) ==
    LET r == ConfirmHandler(ev, s3, env) IN
    /\ op' = "confirm"
    /\ event' = ev
    /\ response' = r.response
    /\ saved' = saved \o r.saves
    /\ UNCHANGED <<urls, s3>>

\* a PUT on a signed URL, which storage accepts or refuses
StoragePut(url, size, accepted) ==
    /\ s3' = IF accepted THEN PutObject(s3, url, size) ELSE s3
    /\ op' = "put"
    /\ event' = NoEvent
    /\ response' = [NoResponse EXCEPT !.statusCode = IF accepted THEN 200 ELSE 403,
                                      !.key = Some(url.key)]
    /\ UNCHANGED <<urls, saved>>


(***************************************************************************)
(* Single-file upload modal: uploadToS3 of music-upload-modal.tsx          *)
(* pc is the await at which the async function is suspended.               *)
(***************************************************************************)
IdleState == [status |-> "idle", progress |-> 0, fileName |-> None, errorMessage |-> None]

\* one entry of the list of network calls: a request sent or the answer to it
Request(call, key, contentType, body) ==
    [call |-> call, phase |-> "request", status |-> 0, key |-> key,
     contentType |-> contentType, body |-> body]
Answer(call, status, key) ==
    [call |-> call, phase |-> "response", status |-> status, key |-> key,
     contentType |-> None, body |-> None]

\* a Response.ok that every answered request passes
ResponseOk_Always(status) == TRUE
\* Response.ok of fetch
ResponseOk(status) == status >= 200 /\ status <= 299
\* a load listener that resolves on every status
XhrStatusOk_Always(status) == TRUE
\* the status test of the XMLHttpRequest load listener
XhrStatusOk(status) == status >= 200 /\ status < 300

\* what an endpoint may answer; 0 is a request that failed without an answer
\* (fetch rejects, the XMLHttpRequest error event)
GrantAnswers   == {200, 400, 401, 500, 0}
PutAnswers     == {200, 204, 403, 0}
ConfirmAnswers == {200, 400, 401, 500, 0}
\* error.error of an error body: present or not
ErrorTexts == {None, Some("Invalid or expired token")}

SingleFiles ==
    [name : {"track.mp3"}, mimeType : {None, Some("audio/mpeg")}, size : {None, Some(4000000)}]

\* a catch block that swallows the exception and reports nothing
Catch_Swallow(message) == UNCHANGED <<uploadState, pc>>

\* the catch block of uploadToS3
Catch(message) ==
    /\ uploadState' = [status |-> "error", progress |-> 0, fileName |-> Some(file.name),
                       errorMessage |-> Some(IF message = "" THEN "Upload failed. Please try again."
                                             ELSE message)]
    /\ pc' = "done"

\* a PUT that always says audio/mpeg
PutContentType_Fixed(f) == "audio/mpeg"
\* file.mimeType || 'audio/mpeg'
PutContentType(f) == IF TruthyStr(f.mimeType) THEN f.mimeType[1] ELSE "audio/mpeg"

\* const { uploadUrl, key } = await presignedResponse.json()
GrantedKey(log) ==
    LET at == CHOOSE i \in 1..Len(log) : log[i].call = "grant" /\ log[i].phase = "response"
    IN  log[at].key

\* uploadFile -> uploadToS3 up to its first await (AsyncStorage.getItem)
StartUpload ==
    /\ pc = "idle" /\ uploadState.status = "idle"
    /\ uploadState' = [status |-> "uploading", progress |-> 0, fileName |-> Some(file.name),
                       errorMessage |-> None]
    /\ pc' = "getToken"
    /\ UNCHANGED <<platform, file, authToken, uploadAbortRef, xhr, net, cancelled>>
    /\ UNCHANGED <<serverVars, albumVars, playerVars>>

\* the token is read; without one the run fails, with one the grant request is sent
TokenRead ==
    /\ pc = "getToken"
    /\ IF ~TruthyStr(authToken)
       THEN Catch("Authentication required. Please log in again.") /\ UNCHANGED net
       ELSE /\ net' = Append(net, Request("grant", None, None,
                                          Some([fileName |-> Some(file.name),
                                                fileType |-> file.mimeType,
                                                fileSize |-> file.size])))
            /\ pc' = "awaitGrant"
            /\ UNCHANGED uploadState
    /\ UNCHANGED <<platform, file, authToken, uploadAbortRef, xhr, cancelled>>
    /\ UNCHANGED <<serverVars, albumVars, playerVars>>


\* a client that reports every refused grant request with its own words
GrantAnswered_OwnWords(status, text, key) ==
    /\ pc = "awaitGrant"
    /\ net' = Append(net, Answer("grant", status, IF ResponseOk(status) THEN Some(key) ELSE None))
    /\ IF status = 0 THEN Catch("Network request failed")
       ELSE IF ~ResponseOk(status) THEN Catch("Failed to get upload URL")
       ELSE pc' = "readFile" /\ UNCHANGED uploadState
    /\ UNCHANGED <<platform, file, authToken, uploadAbortRef, xhr, cancelled>>

\* the grant request returns: what uploadToS3 does with the answer
GrantAnswered(status, text, key) ==
    /\ pc = "awaitGrant"
    /\ net' = Append(net, Answer("grant", status, IF ResponseOk(status) THEN Some(key) ELSE None))
    /\ IF status = 0 THEN Catch("Network request failed")
       ELSE IF ~ResponseOk(status)
       THEN Catch(IF TruthyStr(text) THEN text[1] ELSE "Failed to get upload URL")
       ELSE pc' = "readFile" /\ UNCHANGED uploadState
    /\ UNCHANGED <<platform, file, authToken, uploadAbortRef, xhr, cancelled>>

\* the grant request returns, answered by some endpoint
GrantReturned(status, text, key) ==
    /\ GrantAnswered(status, text, key)
    /\ UNCHANGED <<serverVars, albumVars, playerVars>>

\* fetch(file.uri) and blob() return; the PUT is sent (XMLHttpRequest on web, fetch on native)
FileRead(readOk) ==
    /\ pc = "readFile"
    /\ IF ~readOk
       THEN Catch("Network request failed") /\ UNCHANGED <<net, uploadAbortRef, xhr>>
       ELSE /\ net' = Append(net, Request("put", GrantedKey(net), Some(PutContentType(file)), None))
            /\ pc' = "awaitPut"
            /\ IF platform = "web"
               THEN uploadAbortRef' = Some("xhr.abort") /\ xhr' = "sent"
               ELSE UNCHANGED <<uploadAbortRef, xhr>>
            /\ UNCHANGED uploadState
    /\ UNCHANGED <<platform, file, authToken, cancelled>>
    /\ UNCHANGED <<serverVars, albumVars, playerVars>>

\* the progress listener of the XMLHttpRequest
UploadProgress(percent) ==
    /\ pc = "awaitPut" /\ platform = "web" /\ xhr = "sent"
    /\ uploadState.progress < percent
    /\ uploadState' = [uploadState EXCEPT !.progress = percent]
    /\ UNCHANGED <<platform, file, authToken, pc, uploadAbortRef, xhr, net, cancelled>>
    /\ UNCHANGED <<serverVars, albumVars, playerVars>>

\* step 3 is sent: the upload-complete request
SendConfirm(putStatus) ==
    /\ net' = Append(Append(net, Answer("put", putStatus, GrantedKey(net))),
                     Request("confirm", GrantedKey(net), None,
                             Some([fileName |-> Some(file.name), fileType |-> file.mimeType,
                                   fileSize |-> file.size])))
    /\ pc' = "awaitConfirm"

\* the PUT returns: the load / error listeners on web, the fetch promise on native
PutReturned(status) ==
    /\ pc = "awaitPut"
    /\ IF platform = "web"
       THEN /\ xhr = "sent"
            /\ xhr' = "done"
            /\ IF status = 0
               THEN Catch("Network error during upload") /\ net' = Append(net, Answer("put", 0, None))
               ELSE IF XhrStatusOk(status)
               THEN SendConfirm(status) /\ UNCHANGED uploadState
               ELSE /\ Catch("S3 upload failed: " \o ToString(status))
                    /\ net' = Append(net, Answer("put", status, None))
       ELSE /\ UNCHANGED xhr
            /\ IF status = 0
               THEN Catch("Network request failed") /\ net' = Append(net, Answer("put", 0, None))
               ELSE IF ResponseOk(status)
               THEN /\ SendConfirm(status)
                    /\ uploadState' = [uploadState EXCEPT !.progress = 100]
               ELSE /\ Catch("Failed to upload to S3")
                    /\ net' = Append(net, Answer("put", status, None))
    /\ UNCHANGED <<platform, file, authToken, uploadAbortRef, cancelled>>
    /\ UNCHANGED <<serverVars, albumVars, playerVars>>

\* the abort listener of an aborted XMLHttpRequest rejects the promise
AbortRejected ==
    /\ pc = "awaitPut" /\ platform = "web" /\ xhr = "aborted"
    /\ Catch("Upload cancelled")
    /\ xhr' = "done"
    /\ UNCHANGED <<platform, file, authToken, uploadAbortRef, net, cancelled>>
    /\ UNCHANGED <<serverVars, albumVars, playerVars>>

\* the upload-complete request returns
ConfirmReturned(status, text) ==
    /\ pc = "awaitConfirm"
    /\ net' = Append(net, Answer("confirm", status, None))
    /\ IF status = 0 THEN Catch("Network request failed")
       ELSE IF ~ResponseOk(status)
       THEN Catch(IF TruthyStr(text) THEN text[1] ELSE "Failed to complete upload")
       ELSE /\ uploadState' = [uploadState EXCEPT !.status = "success", !.progress = 100]
            /\ pc' = "done"
    /\ UNCHANGED <<platform, file, authToken, uploadAbortRef, xhr, cancelled>>
    /\ UNCHANGED <<serverVars, albumVars, playerVars>>

\* resetAndClose
ResetAndClose ==
    /\ uploadState' = IdleState
    /\ uploadAbortRef' = None

\* handleClose while uploading, and the user choosing "Cancel Upload"
CancelUpload ==
    /\ uploadState.status = "uploading"
    /\ xhr' = IF uploadAbortRef # None /\ xhr = "sent" THEN "aborted" ELSE xhr
    /\ ResetAndClose
    /\ cancelled' = Some([phase |-> pc, at |-> Len(net)])
    /\ UNCHANGED <<platform, file, authToken, pc, net>>
    /\ UNCHANGED <<serverVars, albumVars, playerVars>>

\* handleClose when no upload is in progress
CloseModal ==
    /\ uploadState.status \in {"success", "error"}
    /\ ResetAndClose
    /\ UNCHANGED <<platform, file, authToken, pc, xhr, net, cancelled>>
    /\ UNCHANGED <<serverVars, albumVars, playerVars>>


(***************************************************************************)
(* Album upload modal: uploadAlbum, uploadFileToS3 and uploadJSONToS3 of   *)
(* music-upload-modal-enhanced.tsx                                         *)
(***************************************************************************)
UpperCase == <<"A","B","C","D","E","F","G","H","I","J","K","L","M","N","O","P","Q","R","S",
               "T","U","V","W","X","Y","Z">>
LowerCase == <<"a","b","c","d","e","f","g","h","i","j","k","l","m","n","o","p","q","r","s",
               "t","u","v","w","x","y","z">>
Digits == {"0","1","2","3","4","5","6","7","8","9"}

\* the lower-case letter of each upper-case letter
UpperToLower ==
    [c \in {UpperCase[i] : i \in 1..26} |-> LowerCase[CHOOSE i \in 1..26 : UpperCase[i] = c]]

LowerChar(c) == IF c \in DOMAIN UpperToLower THEN UpperToLower[c] ELSE c

\* String.prototype.toLowerCase
RECURSIVE LowerFrom(_, _)
LowerFrom(s, i) ==
    IF i > Len(s) THEN "" ELSE LowerChar(SubSeq(s, i, i)) \o LowerFrom(s, i + 1)
ToLowerCase(s) == LowerFrom(s, 1)

SlugChars == Digits \cup {LowerCase[i] : i \in 1..26}
IsSlugChar(c) == c \in SlugChars

\* s.replace(/[^a-z0-9]+/g, '-'): every run of other characters becomes one '-'
\* (from character i on; inRun: the character before was replaced)
RECURSIVE SlugFrom(_, _, _)
SlugFrom(s, i, inRun) ==
    IF i > Len(s) THEN ""
    ELSE IF IsSlugChar(SubSeq(s, i, i)) THEN SubSeq(s, i, i) \o SlugFrom(s, i + 1, FALSE)
    ELSE (IF inRun THEN "" ELSE "-") \o SlugFrom(s, i + 1, TRUE)
Slug(s, inRun) == SlugFrom(s, 1, inRun)

\* the last element of s.split('.')
LastDotPart(s) ==
    LET dots == {i \in 1..Len(s) : SubSeq(s, i, i) = "."} IN
    IF dots = {} THEN s
    ELSE Slice(s, CHOOSE i \in dots : \A j \in dots : j <= i)

\* track numbers without padding
PadStart2_None(n) == ToString(n)
\* String(n).padStart(2, '0')
PadStart2(n) == IF n < 10 THEN "0" \o ToString(n) ELSE ToString(n)

AlbumFolder(albumName) == "music/" \o Slug(ToLowerCase(albumName), FALSE)

\* albumCover.name?.split('.').pop()?.toLowerCase() || 'jpg'
CoverExt(cover) ==
    LET ext == IF cover.name = None THEN "" ELSE ToLowerCase(LastDotPart(cover.name[1]))
    IN  IF ext = "" THEN "jpg" ELSE ext

CoverKey(a) == AlbumFolder(a.albumName) \o "/cover." \o CoverExt(a.cover)
\* track i is albumSongs[i - 1]
SongKey(a, i) == AlbumFolder(a.albumName) \o "/" \o PadStart2(i) \o ". " \o a.songs[i].name
MetadataKey(a) == AlbumFolder(a.albumName) \o "/metadata.json"

ManifestBase == "https://disco-music-bucket.s3.us-east-1.amazonaws.com/"
ManifestCoverUrl(a) == ManifestBase \o AlbumFolder(a.albumName) \o "/cover." \o CoverExt(a.cover)
\* song URLs numbered from 00 while the keys are numbered from 01
ManifestSongUrl_FromZero(a, i) ==
    ManifestBase \o AlbumFolder(a.albumName) \o "/" \o PadStart2(i - 1) \o ". " \o a.songs[i].name
ManifestSongUrl(a, i) ==
    ManifestBase \o AlbumFolder(a.albumName) \o "/" \o PadStart2(i) \o ". " \o a.songs[i].name

\* the metadata object of uploadAlbum
Metadata(a) ==
    [title |-> a.albumName, artist |-> a.albumArtist, cover |-> ManifestCoverUrl(a),
     songs |-> [i \in 1..Len(a.songs) |->
                    [title |-> StripExtension(a.songs[i].name), url |-> ManifestSongUrl(a, i)]]]

\* the objects of a run, in upload order: 0 the cover, 1..n the tracks, n + 1 the manifest
ManifestIndex(a) == Len(a.songs) + 1
ObjectKey(a, i) ==
    IF i = 0 THEN CoverKey(a) ELSE IF i = ManifestIndex(a) THEN MetadataKey(a) ELSE SongKey(a, i)
ObjectContentType(a, i) ==
    IF i = 0 THEN (IF TruthyStr(a.cover.mimeType) THEN a.cover.mimeType[1] ELSE "image/jpeg")
    ELSE IF i = ManifestIndex(a) THEN "application/json"
    ELSE (IF TruthyStr(a.songs[i].mimeType) THEN a.songs[i].mimeType[1] ELSE "audio/mpeg")
\* file.name || key.split('/').pop() || 'file'
ObjectFileName(a, i) ==
    LET name == IF i = 0 THEN a.cover.name
                ELSE IF i = ManifestIndex(a) THEN None ELSE Some(a.songs[i].name)
    IN  IF TruthyStr(name) THEN name[1]
        ELSE IF LastSegment(ObjectKey(a, i)) # "" THEN LastSegment(ObjectKey(a, i)) ELSE "file"

\* the body uploadFileToS3 sends to the upload-url endpoint
GrantRequestBody(a, i) ==
    GrantJson(Some(ObjectFileName(a, i)), Some(ObjectContentType(a, i)),
              IF i = 0 \/ i = ManifestIndex(a) THEN Some(0) ELSE Some(a.songs[i].size),
              Some(ObjectKey(a, i)), None)

\* the key of the uploadUrl the endpoint answers with: the handler signs body.s3Key
\* whenever it is given (the caller and the clock do not enter)
SignedKey(body) == GrantKey(body, 1, 0, "")

\* the catch block of uploadAlbum
AlbumCatch(message) ==
    /\ uploadStatus' = "error"
    /\ errorMessage' = Some(IF message = "" THEN "Upload failed" ELSE message)
    /\ apc' = "done"

\* uploadFileToS3 is entered for object i: the grant request is sent
SendGrantRequest(i) ==
    /\ anet' = Append(anet, Request("grant", Some(ObjectKey(album, i)), None,
                                    Some(GrantRequestBody(album, i))))
    /\ idx' = i
    /\ apc' = "awaitGrant"

\* uploadAlbum up to its first await (AsyncStorage.getItem)
StartAlbum ==
    /\ apc = "idle" /\ uploadStatus = "idle"
    /\ album.albumName # "" /\ album.albumArtist # "" /\ Len(album.songs) > 0
    /\ uploadStatus' = "uploading"
    /\ progress' = 0
    /\ apc' = "getToken"
    /\ UNCHANGED <<album, idx, errorMessage, anet, bucket, closed>>
    /\ UNCHANGED <<serverVars, singleVars, playerVars>>

\* the token is read; with one, the cover's grant request is sent
AlbumTokenRead ==
    /\ apc = "getToken"
    /\ IF ~TruthyStr(album.token)
       THEN AlbumCatch("No auth token") /\ UNCHANGED <<anet, idx, progress>>
       ELSE /\ SendGrantRequest(0)
            /\ progress' = 5
            /\ UNCHANGED <<uploadStatus, errorMessage>>
    /\ UNCHANGED <<album, bucket, closed>>
    /\ UNCHANGED <<serverVars, singleVars, playerVars>>

\* the grant request of the current object returns: what uploadFileToS3 does with the answer
AlbumGrantAnswered(status, text) ==
    /\ apc = "awaitGrant"
    /\ anet' = Append(anet, Answer("grant", status,
                                   IF ResponseOk(status)
                                   THEN Some(SignedKey(GrantRequestBody(album, idx)))
                                   ELSE None))
    /\ IF status = 0 THEN AlbumCatch("Network request failed")
       ELSE IF ~ResponseOk(status)
       THEN AlbumCatch(IF TruthyStr(text) THEN text[1]
                       ELSE "Failed to get upload URL (" \o ToString(status) \o ")")
       ELSE apc' = "readFile" /\ UNCHANGED <<uploadStatus, errorMessage>>
    /\ UNCHANGED <<album, idx, progress, bucket, closed>>

\* the grant request of the current object returns, answered by some endpoint
AlbumGrantReturned(status, text) ==
    /\ AlbumGrantAnswered(status, text)
    /\ UNCHANGED <<serverVars, singleVars, playerVars>>

\* fetch(file.uri) and blob() return; the PUT is sent
AlbumFileRead(readOk) ==
    /\ apc = "readFile"
    /\ IF ~readOk
       THEN AlbumCatch("Network request failed") /\ UNCHANGED anet
       ELSE /\ anet' = Append(anet, Request("put", anet[Len(anet)].key,
                                            Some(ObjectContentType(album, idx)),
                                            IF idx = ManifestIndex(album)
                                            THEN Some(Metadata(album)) ELSE None))
            /\ apc' = "awaitPut"
            /\ UNCHANGED <<uploadStatus, errorMessage>>
    /\ UNCHANGED <<album, idx, progress, bucket, closed>>
    /\ UNCHANGED <<serverVars, singleVars, playerVars>>

\* setProgress(10 + ((i + 1) / albumSongs.length) * 70), rounded down
SongProgress(a, i) == 10 + (i * 70) \div Len(a.songs)

\* the PUT of the current object returns; on success uploadAlbum goes on to the
\* next object, or ends after the manifest
AlbumPutReturned(status) ==
    /\ apc = "awaitPut"
    /\ LET key == anet[Len(anet)].key
           answered == Append(anet, Answer("put", status, key)) IN
       IF status = 0
       THEN AlbumCatch("Network request failed") /\ anet' = answered
            /\ UNCHANGED <<idx, progress, bucket>>
       ELSE IF ~ResponseOk(status)
       THEN /\ AlbumCatch("Failed to upload to S3 (" \o ToString(status) \o ")")
            /\ anet' = answered
            /\ UNCHANGED <<idx, progress, bucket>>
       ELSE /\ bucket' = bucket \cup {key[1]}
            /\ IF idx = ManifestIndex(album)
               THEN /\ anet' = answered
                    /\ progress' = 100
                    /\ uploadStatus' = "success"
                    /\ apc' = "done"
                    /\ UNCHANGED <<idx, errorMessage>>
               ELSE /\ anet' = Append(answered,
                                      Request("grant", Some(ObjectKey(album, idx + 1)), None,
                                              Some(GrantRequestBody(album, idx + 1))))
                    /\ idx' = idx + 1
                    /\ apc' = "awaitGrant"
                    /\ progress' = IF idx + 1 = ManifestIndex(album) THEN progress
                                   ELSE SongProgress(album, idx + 1)
                    /\ UNCHANGED <<uploadStatus, errorMessage>>
    /\ UNCHANGED <<album, closed>>
    /\ UNCHANGED <<serverVars, singleVars, playerVars>>

\* handleClose while uploading, and the user choosing "Cancel Upload": resetState, onClose
AlbumCancel ==
    /\ uploadStatus = "uploading"
    /\ uploadStatus' = "idle"
    /\ progress' = 0
    /\ errorMessage' = None
    /\ closed' = Some([phase |-> apc, at |-> Len(anet)])
    /\ UNCHANGED <<album, apc, idx, anet, bucket>>
    /\ UNCHANGED <<serverVars, singleVars, playerVars>>

\* handleClose when no upload is in progress
AlbumClose ==
    /\ uploadStatus \in {"success", "error"}
    /\ uploadStatus' = "idle"
    /\ progress' = 0
    /\ errorMessage' = None
    /\ UNCHANGED <<album, apc, idx, anet, bucket, closed>>
    /\ UNCHANGED <<serverVars, singleVars, playerVars>>


(***************************************************************************)
(* Music player: playSong and stop of MusicPlayerProvider                  *)
(***************************************************************************)
SongUrls == {"a.mp3", "b.wav"}

\* sound k is the one the k-th playSong call creates
PlayerIdle ==
    /\ soundRef = None /\ loaded = {} /\ plays = <<>> /\ stopping = None
    /\ currentSong = None /\ isPlaying = FALSE

\* setCurrentSong(song) and the call moves on to authApi.getCurrentUser()
PlayGoesOn(k, song) ==
    /\ currentSong' = Some(song)
    /\ plays' = IF k > Len(plays) THEN Append(plays, [song |-> song, pc |-> "getUser", target |-> None])
                ELSE [plays EXCEPT ![k].pc = "getUser"]

\* playSong is called: with a sound in soundRef it awaits its unloadAsync
PlaySong(song) ==
    /\ Len(plays) < MaxPlays
    /\ IF soundRef # None
       THEN /\ plays' = Append(plays, [song |-> song, pc |-> "unloading", target |-> soundRef])
            /\ UNCHANGED currentSong
       ELSE PlayGoesOn(Len(plays) + 1, song)
    /\ UNCHANGED <<soundRef, loaded, stopping, isPlaying>>
    /\ UNCHANGED <<serverVars, singleVars, albumVars>>

\* unloadAsync of playSong call k returns: soundRef.current = null
PlayUnloaded(k) ==
    /\ k \in 1..Len(plays) /\ plays[k].pc = "unloading"
    /\ loaded' = loaded \ {plays[k].target[1]}
    /\ soundRef' = None
    /\ PlayGoesOn(k, plays[k].song)
    /\ UNCHANGED <<stopping, isPlaying>>
    /\ UNCHANGED <<serverVars, singleVars, albumVars>>

\* getCurrentUser of playSong call k returns (or throws, which is caught inside);
\* Audio.Sound.createAsync is called
PlayUserRead(k) ==
    /\ k \in 1..Len(plays) /\ plays[k].pc = "getUser"
    /\ plays' = [plays EXCEPT ![k].pc = "creating"]
    /\ UNCHANGED <<soundRef, loaded, stopping, currentSong, isPlaying>>
    /\ UNCHANGED <<serverVars, singleVars, albumVars>>

\* createAsync of playSong call k returns sound k, or throws
PlayCreated(k, ok) ==
    /\ k \in 1..Len(plays) /\ plays[k].pc = "creating"
    /\ plays' = [plays EXCEPT ![k].pc = "done"]
    /\ IF ok
       THEN loaded' = loaded \cup {k} /\ soundRef' = Some(k) /\ isPlaying' = TRUE
       ELSE UNCHANGED <<loaded, soundRef, isPlaying>>
    /\ UNCHANGED <<stopping, currentSong>>
    /\ UNCHANGED <<serverVars, singleVars, albumVars>>

\* the statements of stop after the if
StopEnds ==
    /\ currentSong' = None
    /\ isPlaying' = FALSE

\* stop is called: with a sound in soundRef it awaits its unloadAsync
Stop ==
    /\ stopping = None
    /\ IF soundRef # None
       THEN stopping' = soundRef /\ UNCHANGED <<currentSong, isPlaying>>
       ELSE StopEnds /\ UNCHANGED stopping
    /\ UNCHANGED <<soundRef, loaded, plays>>
    /\ UNCHANGED <<serverVars, singleVars, albumVars>>

\* unloadAsync of the stop call returns: soundRef.current = null
StopUnloaded ==
    /\ stopping # None
    /\ loaded' = loaded \ {stopping[1]}
    /\ soundRef' = None
    /\ stopping' = None
    /\ StopEnds
    /\ UNCHANGED plays
    /\ UNCHANGED <<serverVars, singleVars, albumVars>>


(***************************************************************************)
(* Specifications                                                          *)
(***************************************************************************)
ServerIdle ==
    /\ op = "none" /\ event = NoEvent /\ response = NoResponse
    /\ urls = {} /\ s3 = {} /\ saved = <<>>

SingleIdle ==
    /\ platform = "web"
    /\ file = [name |-> "track.mp3", mimeType |-> None, size |-> None]
    /\ authToken = None
    /\ pc = "idle" /\ uploadState = IdleState /\ uploadAbortRef = None
    /\ xhr = "unsent" /\ net = <<>> /\ cancelled = None

SongFiles ==
    { [name |-> "a.mp3", mimeType |-> Some("audio/mpeg"), size |-> 4000000],
      [name |-> "Artist - b.wav", mimeType |-> Some("audio/wav"), size |-> 0] }

\* the answers the album run is checked against
AlbumGrantAnswers == {200, 500, 0}
AlbumPutAnswers   == {200, 403, 0}

SongLists == UNION {[1..n -> SongFiles] : n \in 1..MaxTracks}

Albums ==
    [albumName : {"My Album", "Hits & More!"}, albumArtist : {"Jane"},
     cover : [name : {Some("cover.jpg"), Some("Art.PNG")}, mimeType : {None}],
     songs : SongLists,
     token : {None, Some(TokenOf(1))}]

AlbumIdle ==
    /\ album = [albumName |-> "", albumArtist |-> "",
                cover |-> [name |-> Some("cover.jpg"), mimeType |-> None],
                songs |-> <<>>, token |-> None]
    /\ apc = "idle" /\ idx = 0 /\ uploadStatus = "idle" /\ progress = 0
    /\ errorMessage = None /\ anet = <<>> /\ bucket = {} /\ closed = None

\* ---- SpecGrant: the upload-url Lambda on every request of GrantEvents
InitGrant ==
    /\ op = "none" /\ event \in GrantEvents /\ response = NoResponse
    /\ urls = {} /\ s3 = {} /\ saved = <<>>
    /\ SingleIdle /\ AlbumIdle /\ PlayerIdle

InvokeGrant ==
    /\ op = "none"
    /\ \E env \in GrantEnvs : RequestUploadGrant(event, env)
    /\ UNCHANGED <<singleVars, albumVars, playerVars>>

NextGrant == InvokeGrant

SpecGrant == InitGrant /\ [][NextGrant]_vars

\* ---- Spec: grants, PUTs and confirmations of several users, interleaved
SharedKey == "music/shared/01. track.mp3"
GhostKey == "music/1/never-uploaded.mp3"

ProtocolAuth == {None} \cup {BearerOf(u) : u \in Users}
\* an owner field in the request body, which neither handler reads
Owners == {None, Some(1)}

ProtocolGrantEvents ==
    [authorization : ProtocolAuth,
     body : {JsonBody(GrantJson(Some("track.mp3"), Some("audio/mpeg"), None, k, None)) :
                 k \in {None, Some(SharedKey)}}]

ProtocolGrantEnvs == [timestamp : {1700000000}, randomString : {"k3x9q"}, signerOk : BOOLEAN]

ProtocolConfirmEvents ==
    [authorization : ProtocolAuth,
     body : {JsonBody(ConfirmJson(k, n, z, None, o)) :
                 k \in {None, Some(GhostKey)} \cup {Some(u.key) : u \in urls},
                 n \in {Some("Artist - Song.mp3")},
                 z \in {Some(1)},
                 o \in Owners}]

ProtocolConfirmEnvs == [id : {"music_1700000000_ab12cd34e"}, headOk : BOOLEAN]

Grant ==
    /\ Cardinality(urls) < MaxGrants
    /\ \E ev \in ProtocolGrantEvents, env \in ProtocolGrantEnvs : RequestUploadGrant(ev, env)
    /\ UNCHANGED <<singleVars, albumVars, playerVars>>

Put ==
    /\ \E url \in urls, accepted \in BOOLEAN : StoragePut(url, 4000000, accepted)
    /\ UNCHANGED <<singleVars, albumVars, playerVars>>

Confirm ==
    /\ Len(saved) < MaxRecords
    /\ \E ev \in ProtocolConfirmEvents, env \in ProtocolConfirmEnvs : ConfirmUpload(ev, env)
    /\ UNCHANGED <<singleVars, albumVars, playerVars>>

Init == ServerIdle /\ SingleIdle /\ AlbumIdle /\ PlayerIdle

Next == Grant \/ Put \/ Confirm

Spec == Init /\ [][Next]_vars

\* ---- SpecSingle: one run of uploadToS3, with the user closing the modal at any time
InitSingle ==
    /\ ServerIdle /\ AlbumIdle /\ PlayerIdle
    /\ platform \in {"web", "native"}
    /\ file \in SingleFiles
    /\ authToken \in {None, Some(TokenOf(1))}
    /\ pc = "idle" /\ uploadState = IdleState /\ uploadAbortRef = None
    /\ xhr = "unsent" /\ net = <<>> /\ cancelled = None

NextSingle ==
    \/ StartUpload
    \/ TokenRead
    \/ \E st \in GrantAnswers, text \in ErrorTexts :
           GrantReturned(st, text, generateS3Key(1, file.name, 1700000000, "k3x9q"))
    \/ \E readOk \in BOOLEAN : FileRead(readOk)
    \/ \E percent \in {50, 100} : UploadProgress(percent)
    \/ \E st \in PutAnswers : PutReturned(st)
    \/ AbortRejected
    \/ \E st \in ConfirmAnswers, text \in ErrorTexts : ConfirmReturned(st, text)
    \/ CancelUpload
    \/ CloseModal

SpecSingle == InitSingle /\ [][NextSingle]_vars

\* ---- SpecAlbum: one run of uploadAlbum, with the user closing the modal at any time
InitAlbum ==
    /\ ServerIdle /\ SingleIdle /\ PlayerIdle
    /\ album \in Albums
    /\ apc = "idle" /\ idx = 0 /\ uploadStatus = "idle" /\ progress = 0
    /\ errorMessage = None /\ anet = <<>> /\ bucket = {} /\ closed = None

NextAlbum ==
    \/ StartAlbum
    \/ AlbumTokenRead
    \/ \E st \in AlbumGrantAnswers, text \in ErrorTexts : AlbumGrantReturned(st, text)
    \/ \E readOk \in BOOLEAN : AlbumFileRead(readOk)
    \/ \E st \in AlbumPutAnswers : AlbumPutReturned(st)
    \/ AlbumCancel
    \/ AlbumClose

SpecAlbum == InitAlbum /\ [][NextAlbum]_vars


\* ---- SpecClients: the user works with one of the two modals, and may try again
\* after a failed run

\* a "Try Again" that sends the PUT of the failed run once more, to the same uploadUrl
TryAgain_SameGrant ==
    /\ pc = "done" /\ uploadState.status = "error"
    /\ uploadState' = [status |-> "uploading", progress |-> 0, fileName |-> Some(file.name),
                       errorMessage |-> None]
    /\ IF \E j \in 1..Len(net) : net[j].call = "put" /\ net[j].phase = "request"
       THEN /\ net' = Append(net, net[CHOOSE j \in 1..Len(net) :
                                          net[j].call = "put" /\ net[j].phase = "request"])
            /\ pc' = "awaitPut"
            /\ xhr' = IF platform = "web" THEN "sent" ELSE xhr
       ELSE net' = <<>> /\ pc' = "getToken" /\ xhr' = "unsent"
    /\ cancelled' = None
    /\ UNCHANGED <<platform, file, authToken, uploadAbortRef>>
    /\ UNCHANGED <<serverVars, albumVars, playerVars>>

\* "Try Again" of the single modal: handleSelectFile picks a file and uploadFile
\* starts uploadToS3 anew (uploadAbortRef keeps what the failed run left in it)
TryAgain ==
    /\ pc = "done" /\ uploadState.status = "error"
    /\ \E f \in SingleFiles : file' = f
    /\ uploadState' = [status |-> "uploading", progress |-> 0, fileName |-> Some(file'.name),
                       errorMessage |-> None]
    /\ pc' = "getToken"
    /\ net' = <<>>
    /\ xhr' = "unsent"
    /\ cancelled' = None
    /\ UNCHANGED <<platform, authToken, uploadAbortRef>>
    /\ UNCHANGED <<serverVars, albumVars, playerVars>>

\* "Try Again" of the album modal: setUploadStatus('idle') shows the form again, from
\* which uploadAlbum is started anew; what was uploaded stays in the bucket
AlbumTryAgain ==
    /\ apc = "done" /\ uploadStatus = "error"
    /\ uploadStatus' = "idle"
    /\ apc' = "idle"
    /\ idx' = 0
    /\ anet' = <<>>
    /\ closed' = None
    /\ UNCHANGED <<album, progress, errorMessage, bucket>>
    /\ UNCHANGED <<serverVars, singleVars, playerVars>>

\* the album form is empty: the user has the single modal open
AlbumFormEmpty == album.songs = <<>>

\* the albums of this specification: one title and one cover, every list of tracks
ClientAlbums == {a \in Albums : a.albumName = "Hits & More!" /\ a.cover.name = Some("Art.PNG")}

InitClients == InitSingle \/ (InitAlbum /\ album \in ClientAlbums)

SingleStep ==
    \/ TokenRead
    \/ \E st \in GrantAnswers, text \in ErrorTexts :
           GrantReturned(st, text, generateS3Key(1, file.name, 1700000000, "k3x9q"))
    \/ \E readOk \in BOOLEAN : FileRead(readOk)
    \/ \E st \in PutAnswers : PutReturned(st)
    \/ AbortRejected
    \/ \E st \in ConfirmAnswers, text \in ErrorTexts : ConfirmReturned(st, text)

AlbumStep ==
    \/ AlbumTokenRead
    \/ \E st \in AlbumGrantAnswers, text \in ErrorTexts : AlbumGrantReturned(st, text)
    \/ \E readOk \in BOOLEAN : AlbumFileRead(readOk)
    \/ \E st \in AlbumPutAnswers : AlbumPutReturned(st)

NextClients ==
    \/ (AlbumFormEmpty /\ StartUpload)
    \/ TokenRead
    \/ \E st \in GrantAnswers, text \in ErrorTexts :
           GrantReturned(st, text, generateS3Key(1, file.name, 1700000000, "k3x9q"))
    \/ \E readOk \in BOOLEAN : FileRead(readOk)
    \/ \E percent \in {50, 100} : UploadProgress(percent)
    \/ \E st \in PutAnswers : PutReturned(st)
    \/ AbortRejected
    \/ \E st \in ConfirmAnswers, text \in ErrorTexts : ConfirmReturned(st, text)
    \/ CancelUpload
    \/ CloseModal
    \/ TryAgain
    \/ StartAlbum
    \/ AlbumTokenRead
    \/ \E st \in AlbumGrantAnswers, text \in ErrorTexts : AlbumGrantReturned(st, text)
    \/ \E readOk \in BOOLEAN : AlbumFileRead(readOk)
    \/ \E st \in AlbumPutAnswers : AlbumPutReturned(st)
    \/ AlbumCancel
    \/ AlbumClose
    \/ AlbumTryAgain

SpecClients == InitClients /\ [][NextClients]_vars

\* every await of a run returns: storage reads and network calls are answered,
\* with a response or with a failure
SpecClientsFair == SpecClients /\ WF_vars(SingleStep) /\ WF_vars(AlbumStep)


\* ---- SpecSystem: the two modals with their grant requests answered by the
\* upload-url Lambda

\* files as the picker may describe them: MIME type absent, empty, specific, generic
SystemFiles ==
    [name : {"track.mp3"},
     mimeType : {None, Some(""), Some("audio/mpeg"), Some("application/octet-stream")},
     size : {None, Some(4000000)}]

\* the event the upload-url Lambda gets for a grant request: the Authorization
\* header and the JSON body the client wrote (JSON.stringify drops undefined fields)
GrantEventOf(token, body) ==
    [authorization |-> Some("Bearer " \o token),
     body |-> JsonBody(GrantJson(body.fileName, body.fileType, body.fileSize, body.s3Key, None))]

\* the grant request of uploadToS3 is served by the Lambda
GrantServed(env) ==
    /\ pc = "awaitGrant"
    /\ LET b == net[Len(net)].body[1]
           ev == GrantEventOf(authToken[1],
                              [fileName |-> b.fileName, fileType |-> b.fileType,
                               fileSize |-> b.fileSize, s3Key |-> None])
           r == GrantHandler(ev, env)
       IN  /\ RequestUploadGrant(ev, env)
           /\ GrantAnswered(r.statusCode, r.error, IF r.key = None THEN "" ELSE r.key[1])
    /\ UNCHANGED <<albumVars, playerVars>>

\* the grant request of uploadFileToS3 is served by the Lambda
AlbumGrantServed(env) ==
    /\ apc = "awaitGrant"
    /\ LET ev == GrantEventOf(album.token[1], anet[Len(anet)].body[1])
           r == GrantHandler(ev, env)
       IN  /\ RequestUploadGrant(ev, env)
           /\ AlbumGrantAnswered(r.statusCode, r.error)
    /\ UNCHANGED <<singleVars, playerVars>>

InitSystem ==
    /\ ServerIdle /\ PlayerIdle
    /\ \/ /\ AlbumIdle
          /\ platform \in {"web", "native"}
          /\ file \in SystemFiles
          /\ authToken \in {None, Some(TokenOf(1)), Some("tok-expired")}
          /\ pc = "idle" /\ uploadState = IdleState /\ uploadAbortRef = None
          /\ xhr = "unsent" /\ net = <<>> /\ cancelled = None
       \/ /\ SingleIdle
          /\ album \in {[a EXCEPT !.token = t] : a \in ClientAlbums,
                                                  t \in {Some(TokenOf(1)), Some("tok-expired")}}
          /\ apc = "idle" /\ idx = 0 /\ uploadStatus = "idle" /\ progress = 0
          /\ errorMessage = None /\ anet = <<>> /\ bucket = {} /\ closed = None

NextSystem ==
    \/ (AlbumFormEmpty /\ StartUpload)
    \/ TokenRead
    \/ \E env \in ProtocolGrantEnvs : GrantServed(env)
    \/ \E readOk \in BOOLEAN : FileRead(readOk)
    \/ \E percent \in {50, 100} : UploadProgress(percent)
    \/ \E st \in PutAnswers : PutReturned(st)
    \/ AbortRejected
    \/ \E st \in ConfirmAnswers, text \in ErrorTexts : ConfirmReturned(st, text)
    \/ CancelUpload
    \/ CloseModal
    \/ StartAlbum
    \/ AlbumTokenRead
    \/ \E env \in ProtocolGrantEnvs : AlbumGrantServed(env)
    \/ \E readOk \in BOOLEAN : AlbumFileRead(readOk)
    \/ \E st \in AlbumPutAnswers : AlbumPutReturned(st)
    \/ AlbumCancel
    \/ AlbumClose

SpecSystem == InitSystem /\ [][NextSystem]_vars

\* ---- SpecLogin: login, logout and the uploads of both modals. AsyncStorage holds the
\* ---- item STORAGE_TOKEN_KEY ('discoToken'), which is album.token, and the item
\* ---- 'authToken', which is authToken and which no code of the repository writes.
MockToken == "mock-jwt-token"

\* authApi.login / authApi.signup: AsyncStorage.setItem(STORAGE_TOKEN_KEY, mockToken)
Login ==
    /\ album.token = None
    /\ album' = [album EXCEPT !.token = Some(MockToken)]
    /\ UNCHANGED <<apc, idx, uploadStatus, progress, errorMessage, anet, bucket, closed>>
    /\ UNCHANGED <<serverVars, singleVars, playerVars>>

\* authApi.logout: AsyncStorage.removeItem(STORAGE_TOKEN_KEY)
Logout ==
    /\ album.token # None
    /\ album' = [album EXCEPT !.token = None]
    /\ UNCHANGED <<apc, idx, uploadStatus, progress, errorMessage, anet, bucket, closed>>
    /\ UNCHANGED <<serverVars, singleVars, playerVars>>

InitLogin ==
    /\ ServerIdle /\ PlayerIdle
    /\ platform \in {"web", "native"}
    /\ file \in SingleFiles
    /\ authToken = None
    /\ pc = "idle" /\ uploadState = IdleState /\ uploadAbortRef = None
    /\ xhr = "unsent" /\ net = <<>> /\ cancelled = None
    /\ album \in {[a EXCEPT !.token = None] : a \in {b \in ClientAlbums : Len(b.songs) = 1}}
    /\ apc = "idle" /\ idx = 0 /\ uploadStatus = "idle" /\ progress = 0
    /\ errorMessage = None /\ anet = <<>> /\ bucket = {} /\ closed = None

NextLogin ==
    \/ Login
    \/ Logout
    \/ StartUpload
    \/ TokenRead
    \/ CancelUpload
    \/ CloseModal
    \/ TryAgain
    \/ StartAlbum
    \/ AlbumTokenRead
    \/ \E st \in AlbumGrantAnswers, text \in ErrorTexts : AlbumGrantReturned(st, text)
    \/ \E readOk \in BOOLEAN : AlbumFileRead(readOk)
    \/ \E st \in AlbumPutAnswers : AlbumPutReturned(st)
    \/ AlbumCancel
    \/ AlbumClose
    \/ AlbumTryAgain

SpecLogin == InitLogin /\ [][NextLogin]_vars

\* ---- SpecConfirms: an upload that is confirmed again and again
RepeatedConfirmEvents ==
    [authorization : {BearerOf(u) : u \in Users},
     body : {JsonBody(ConfirmJson(Some(u.key), Some("Artist - Song.mp3"), None, None, None)) :
                 u \in urls}]

RepeatedConfirmEnvs == [id : RecordIds, headOk : BOOLEAN]

\* one more invocation of the upload-complete Lambda
ConfirmAgain ==
    /\ Len(saved) < MaxCalls
    /\ \E ev \in RepeatedConfirmEvents, env \in RepeatedConfirmEnvs : ConfirmUpload(ev, env)
    /\ UNCHANGED <<singleVars, albumVars, playerVars>>

NextConfirms == Grant \/ Put \/ ConfirmAgain

SpecConfirms == Init /\ [][NextConfirms]_vars

\* ---- SpecSelect: files picked or dropped by the user, validated by validateFile and
\* ---- uploaded by uploadToS3, whose grant request the upload-url Lambda answers
\* UploadConfig.SUPPORTED_TYPES
SUPPORTED_TYPES ==
    {"audio/mpeg", "audio/mp4", "audio/wav", "audio/x-wav", "audio/wave", "audio/aac",
     "audio/ogg", "audio/flac", "audio/x-flac", "audio/webm"}

\* UploadConfig.SUPPORTED_EXTENSIONS
SUPPORTED_EXTENSIONS == {"mp3", "wav", "flac", "ogg", "aac", "m4a", "webm"}

\* file.name.toLowerCase().split('.').pop()
ExtensionOf(name) == LastDotPart(ToLowerCase(name))

\* validateFile(file): the error message, or null
validateFile(f) ==
    IF /\ TruthyStr(f.mimeType) /\ f.mimeType[1] \notin SUPPORTED_TYPES
       /\ (ExtensionOf(f.name) = "" \/ ExtensionOf(f.name) \notin SUPPORTED_EXTENSIONS)
    THEN Some("Unsupported file format. Please upload MP3, WAV, FLAC, OGG, AAC, M4A, or WebM files.")
    ELSE IF TruthyNum(f.size) /\ f.size[1] > MAX_FILE_SIZE
    THEN Some("File too large. Maximum size is 100MB.")
    ELSE None

PickedFiles ==
    [name : {"track.mp3", "x.exe", "Song.FLAC"},
     mimeType : {None, Some(""), Some("audio/mpeg"), Some("audio/mp3"),
                 Some("application/octet-stream"), Some("video/mp4")},
     size : {None, Some(4000000), Some(MAX_FILE_SIZE + 1)}]

\* handleSelectFile / handleDrop: a file that validateFile refuses is not uploaded
\* (an alert, no change of state); an accepted one goes to uploadFile -> uploadToS3
SelectFile ==
    /\ pc = "idle" /\ uploadState.status = "idle"
    /\ \E f \in PickedFiles : validateFile(f) = None /\ file' = f
    /\ uploadState' = [status |-> "uploading", progress |-> 0, fileName |-> Some(file'.name),
                       errorMessage |-> None]
    /\ pc' = "getToken"
    /\ UNCHANGED <<platform, authToken, uploadAbortRef, xhr, net, cancelled>>
    /\ UNCHANGED <<serverVars, albumVars, playerVars>>

InitSelect ==
    /\ ServerIdle /\ AlbumIdle /\ PlayerIdle
    /\ platform \in {"web", "native"}
    /\ file = [name |-> "track.mp3", mimeType |-> None, size |-> None]
    /\ authToken = Some(TokenOf(1))
    /\ pc = "idle" /\ uploadState = IdleState /\ uploadAbortRef = None
    /\ xhr = "unsent" /\ net = <<>> /\ cancelled = None

NextSelect ==
    \/ SelectFile
    \/ TokenRead
    \/ \E env \in ProtocolGrantEnvs : GrantServed(env)
    \/ \E readOk \in BOOLEAN : FileRead(readOk)
    \/ \E percent \in {50, 100} : UploadProgress(percent)
    \/ \E st \in PutAnswers : PutReturned(st)
    \/ AbortRejected
    \/ \E st \in ConfirmAnswers, text \in ErrorTexts : ConfirmReturned(st, text)
    \/ CancelUpload
    \/ CloseModal

SpecSelect == InitSelect /\ [][NextSelect]_vars

\* ---- SpecPlayer: playSong and stop calls of the music player, in any interleaving
InitPlayer == ServerIdle /\ SingleIdle /\ AlbumIdle /\ PlayerIdle

NextPlayer ==
    \/ \E song \in SongUrls : PlaySong(song)
    \/ \E k \in 1..MaxPlays : PlayUnloaded(k)
    \/ \E k \in 1..MaxPlays : PlayUserRead(k)
    \/ \E k \in 1..MaxPlays, ok \in BOOLEAN : PlayCreated(k, ok)
    \/ Stop
    \/ StopUnloaded

SpecPlayer == InitPlayer /\ [][NextPlayer]_vars

\* ---- SpecCalls: the upload-url Lambda invoked again and again; each invocation
\* ---- returns before the next one starts, and the caller keeps the last answer
CallFileNames == {Some("track.mp3"), Some("my song.mp3")}

CallEvents ==
    [authorization : {BearerOf(u) : u \in Users},
     body : {JsonBody(GrantJson(n, Some("audio/mpeg"), Some(4000000), k, None)) :
                 n \in CallFileNames, k \in {None, Some(SharedKey)}}]

\* one more invocation of the handler
GrantCall ==
    /\ op = "none"
    /\ Cardinality(urls) < MaxCalls
    /\ \E ev \in CallEvents, env \in GrantEnvs : RequestUploadGrant(ev, env)
    /\ UNCHANGED <<singleVars, albumVars, playerVars>>

\* the handler has returned its answer
GrantReturn ==
    /\ op = "grant"
    /\ op' = "none"
    /\ UNCHANGED <<event, response, urls, s3, saved>>
    /\ UNCHANGED <<singleVars, albumVars, playerVars>>

NextCalls == GrantCall \/ GrantReturn

SpecCalls == Init /\ [][NextCalls]_vars


(***************************************************************************)
(* Properties                                                              *)
(***************************************************************************)
Is2xx(status) == status \in 200..299

\* headers that carry no credential, a malformed one, or an invalid or expired token
BadAuthHeaders ==
    {None, Some(""), Some("Bearer "), Some("Basic dXNlcjpwdw=="),
     Some("Bearer tok-expired"), Some("tok-expired"), Some("Bearer not.a.jwt"), Some("not.a.jwt")}

\* headers that carry the valid token of a user; CallerOf is that user
GoodAuthHeaders == {BearerOf(u) : u \in Users} \cup {Some(TokenOf(u)) : u \in Users}
CallerOf(auth) == CHOOSE u \in Users : auth \in {BearerOf(u), Some(TokenOf(u))}

\* C1 (as claimed): a grant request whose Authorization header is missing, malformed
\* or carries an invalid or expired token is answered 401, without uploadUrl or key.
C1_UnauthorizedIs401 ==
    (op = "grant" /\ event.authorization \in BadAuthHeaders)
        => /\ response.statusCode = 401
           /\ response.uploadUrl = None
           /\ response.key = None

\* the caller's namespace: music/{id of the caller}/
InNamespace(key, u) == StartsWith(key, "music/" \o ToString(u) \o "/")

\* C2 (as claimed): every key a grant is issued for lies in the caller's namespace,
\* also when the caller supplied the key.
C2_GrantedKeyInNamespace ==
    (op = "grant" /\ response.statusCode = 200)
        => /\ event.authorization \in GoodAuthHeaders
           /\ InNamespace(response.key[1], CallerOf(event.authorization))

ConfirmedKey == event.body.json.key

C4_OwnerIsGrantee ==
    \A i \in 1..Len(saved) :
        \E u \in urls : u.key = saved[i].s3Key /\ u.userId = ToString(saved[i].userId)

\* a grant body that must be refused as InvalidArgument
InvalidGrantBody(body) ==
    \/ body.syntax = "null"
    \/ /\ body.syntax = "json"
       /\ \/ body.json.fileName = None
          \/ body.json.fileType = None
          \/ (body.json.fileType # None /\ body.json.fileType[1] \notin ALLOWED_TYPES)
          \/ (body.json.fileSize # None /\ body.json.fileSize[1] > MAX_FILE_SIZE)

\* a grant body that must be granted
ValidGrantBody(body) ==
    /\ body.syntax = "json"
    /\ TruthyStr(body.json.fileName)
    /\ body.json.fileType # None /\ body.json.fileType[1] \in ALLOWED_TYPES
    /\ (body.json.fileSize = None \/ body.json.fileSize[1] <= MAX_FILE_SIZE)

\* C5 (as claimed): with a valid credential, a body without fileName or fileType,
\* with a fileType outside the allow-list or a fileSize above 100 MiB is answered 400
\* without a signed URL; any other body with a fileName is granted (or, when the
\* signer fails, answered 500).
C5_InvalidArgumentIs400 ==
    (op = "grant" /\ event.authorization \in GoodAuthHeaders)
        => /\ InvalidGrantBody(event.body)
               => (response.statusCode = 400 /\ response.uploadUrl = None)
           /\ ValidGrantBody(event.body)
               => \/ response.statusCode = 200 /\ response.uploadUrl # None
                  \/ response.statusCode = 500 /\ response.uploadUrl = None


IsRequest(e, call) == e.call = call /\ e.phase = "request"
IsAnswer(e, call)  == e.call = call /\ e.phase = "response"

\* C6: one run of uploadToS3 sends at most one grant request, one PUT and one
\* confirmation, in that order, each only after the call before it was answered; the
\* PUT only after a 2xx grant answer, the confirmation only after a 2xx PUT answer.
C6_StrictlySequential ==
    /\ \A j \in 1..Len(net) :
          /\ IsRequest(net[j], "grant") => j = 1
          /\ IsRequest(net[j], "put") =>
                 /\ j = 3
                 /\ IsAnswer(net[2], "grant") /\ Is2xx(net[2].status)
          /\ IsRequest(net[j], "confirm") =>
                 /\ j = 5
                 /\ IsAnswer(net[4], "put") /\ Is2xx(net[4].status)
          /\ net[j].phase = "response" =>
                 /\ j > 1
                 /\ net[j - 1].phase = "request" /\ net[j - 1].call = net[j].call
    /\ Len(net) <= 6

\* C6 witness: a run that went through all three steps and succeeded
C6_Witness ==
    /\ pc = "done" /\ uploadState.status = "success"
    /\ Len(net) = 6
    /\ IsRequest(net[5], "confirm") /\ IsAnswer(net[6], "confirm")

\* a PUT that storage answered 2xx, at place j of the album run's calls
AlbumPutDone(j) == IsAnswer(anet[j], "put") /\ Is2xx(anet[j].status)

\* C7 (as claimed): in an album upload every object goes through grant request, PUT
\* and completion notification before the next object is started or the run ends.
C7_ThreeStepsPerObject ==
    \A j \in 1..Len(anet) :
        (AlbumPutDone(j) /\ (j < Len(anet) \/ apc = "done"))
            => /\ j < Len(anet)
               /\ IsRequest(anet[j + 1], "confirm")
               /\ anet[j + 1].key = anet[j].key

\* the run ended in the catch block of uploadAlbum
AlbumRunFailed ==
    /\ apc = "done"
    /\ ~(anet # <<>> /\ AlbumPutDone(Len(anet))
         /\ anet[Len(anet)].key = Some(MetadataKey(album)))

C8_State ==
    \* no call is sent after a call that failed
    /\ \A j \in 1..Len(anet) :
           (anet[j].phase = "response" /\ ~Is2xx(anet[j].status)) => j = Len(anet)
    \* a run that failed at the cover or at a track never asked for the manifest
    /\ (AlbumRunFailed /\ idx < ManifestIndex(album))
           => \A j \in 1..Len(anet) : anet[j].key # Some(MetadataKey(album))
    \* nor for a later track
    /\ AlbumRunFailed
           => \A j \in 1..Len(anet), i \in 1..Len(album.songs) :
                  i > idx => anet[j].key # Some(SongKey(album, i))
    \* what was uploaded is in the bucket
    /\ \A j \in 1..Len(anet) : AlbumPutDone(j) => anet[j].key[1] \in bucket

\* C8: fail-fast album upload. After a failed item no later track and no manifest
\* is requested or PUT, a run that ended sends nothing more, and no object that was
\* uploaded leaves the bucket.
C8_FailFast ==
    /\ []C8_State
    /\ [][apc = "done" => (anet' = anet /\ apc' = "done")]_vars
    /\ [][bucket \subseteq bucket']_vars

\* C8 witness: the first of two tracks failed after the cover was uploaded
C8_Witness ==
    /\ AlbumRunFailed
    /\ Len(album.songs) = 2 /\ idx = 1
    /\ bucket = {CoverKey(album)}
    /\ IsAnswer(anet[Len(anet)], "put") /\ anet[Len(anet)].status = 403

\* keys whose PUT was answered 2xx before place j
UploadedBefore(j) == {anet[k].key[1] : k \in {k \in 1..(j - 1) : AlbumPutDone(k)}}

IsManifestPut(e) == IsRequest(e, "put") /\ e.body # None

\* C9: when metadata.json is PUT, its cover URL and every song URL name a key whose
\* PUT was answered 2xx before in the same run, and no PUT follows the manifest's.
C9_ManifestIsCommitMarker ==
    \A j \in 1..Len(anet) :
        IsManifestPut(anet[j]) =>
            LET m == anet[j].body[1] IN
            /\ anet[j].key = Some(MetadataKey(album))
            /\ \E k \in UploadedBefore(j) : m.cover = ManifestBase \o k
            /\ Len(m.songs) = Len(album.songs)
            /\ \A i \in 1..Len(m.songs) :
                   \E k \in UploadedBefore(j) : m.songs[i].url = ManifestBase \o k
            /\ \A i, i2 \in 1..Len(m.songs) : i # i2 => m.songs[i].url # m.songs[i2].url
            /\ \A k \in (j + 1)..Len(anet) : ~IsRequest(anet[k], "put")

\* C9 witness: an album of two tracks whose manifest was PUT and accepted
C9_Witness ==
    /\ apc = "done" /\ uploadStatus = "success"
    /\ Len(album.songs) = 2
    /\ IsManifestPut(anet[Len(anet) - 1])
    /\ Cardinality(bucket) = 4

\* C10 (as claimed): once the user cancelled during the transfer, the upload sends
\* no further request, neither the confirmation nor a grant request nor a PUT.
C10_NoRequestAfterCancel ==
    (cancelled # None /\ cancelled[1].phase = "awaitPut")
        => \A j \in (cancelled[1].at + 1)..Len(net) : net[j].phase # "request"

\* a run of uploadToS3 / of uploadAlbum is between its start and its end
SingleRunning == pc \notin {"idle", "done"}
AlbumRunning == apc \notin {"idle", "done"}

\* the outcome a run of uploadToS3 / uploadAlbum reports as it ends
SingleOutcomeReported ==
    \/ uploadState.status = "success"
    \/ /\ uploadState.status = "error"
       /\ uploadState.errorMessage # None /\ uploadState.errorMessage[1] # ""
AlbumOutcomeReported ==
    \/ uploadStatus = "success"
    \/ uploadStatus = "error" /\ errorMessage # None /\ errorMessage[1] # ""

\* C11: every started run of uploadToS3 and of uploadAlbum ends, provided every await
\* returns; as it ends it reports success, or error with a non-empty reason; the state
\* 'uploading' is always left; a reported outcome is never replaced by the other one.
C11_EveryRunEnds ==
    /\ SingleRunning ~> (pc = "done")
    /\ AlbumRunning ~> (apc = "done")
    /\ (uploadState.status = "uploading") ~> (uploadState.status # "uploading")
    /\ (uploadStatus = "uploading") ~> (uploadStatus # "uploading")
    /\ [][(SingleRunning /\ pc' = "done") => SingleOutcomeReported']_vars
    /\ [][(AlbumRunning /\ apc' = "done") => AlbumOutcomeReported']_vars
    /\ [][(pc = "done" /\ pc' = "done")
              => uploadState'.status \in {uploadState.status, "idle"}]_vars
    /\ [][(apc = "done" /\ apc' = "done") => uploadStatus' \in {uploadStatus, "idle"}]_vars
    /\ [](uploadState.status = "error" => SingleOutcomeReported)

\* C11 witness: on web the user cancelled during the PUT, and the run ended as failed
C11_Witness ==
    /\ pc = "done" /\ platform = "web" /\ cancelled # None
    /\ uploadState.status = "error"
    /\ uploadState.errorMessage = Some("Upload cancelled")

\* the grant request that a PUT request at place j of a run's calls belongs to
GrantRequestOf(log, j) == log[j - 2]

\* the Content-Type of every PUT is the fileType of the grant request before it and
\* the ContentType of the PutObject command the Lambda signed for the key
ContentTypeBound(log) ==
    \A j \in 1..Len(log) :
        IsRequest(log[j], "put") =>
            /\ j >= 3 /\ IsRequest(GrantRequestOf(log, j), "grant")
            /\ log[j].contentType # None
            /\ GrantRequestOf(log, j).body[1].fileType = log[j].contentType
            /\ \E u \in urls : /\ Some(u.key) = log[j].key
                               /\ Some(u.contentType) = log[j].contentType

\* C12: in both modals, the Content-Type header of every PUT equals the fileType the
\* same upload sent in its grant request and the ContentType the Lambda signed.
C12_ContentTypeBinding == ContentTypeBound(net) /\ ContentTypeBound(anet)

\* C12 witness: a file of generic type reached the PUT
C12_Witness ==
    /\ file.mimeType = Some("application/octet-stream")
    /\ net # <<>> /\ IsRequest(net[Len(net)], "put")
    /\ net[Len(net)].contentType = Some("application/octet-stream")

\* what a client may claim about the object in the upload-complete body, true or
\* not, with a URL field the handler does not know
ClientClaims ==
    [fileName : {None, Some("other.wav")},
     fileSize : {None, Some(MAX_FILE_SIZE + 1)},
     fileType : {None, Some("video/mp4")},
     url : {None, Some("https://evil.example/x.mp3")}]

\* the upload-complete body for a key with these claims
ClaimBody(key, c) ==
    LET j == ConfirmJson(Some(key), c.fileName, c.fileSize, c.fileType, None)
    IN  [f \in DOMAIN j \cup {"url", "publicUrl"} |-> IF f \in DOMAIN j THEN j[f] ELSE c.url]

\* C13: whatever fileName, fileSize, fileType or URL the upload-complete body claims,
\* the record's publicUrl is the bucket/region URL of the key and its fileSize and
\* contentType are those of the object in storage; so two confirmations of one key
\* against the same storage agree on them.
C13_RecordFromStorageOnly ==
    \A o \in s3, c \in ClientClaims :
        LET ev == [authorization |-> BearerOf(1), body |-> JsonBody(ClaimBody(o.key, c))]
            r == ConfirmHandler(ev, s3, [id |-> "music_1700000000_ab12cd34e", headOk |-> TRUE])
        IN  /\ r.response.statusCode = 200
            /\ Len(r.saves) = 1
            /\ r.saves[1].publicUrl =
                   "https://" \o BUCKET_NAME \o ".s3." \o AWS_REGION \o ".amazonaws.com/" \o o.key
            /\ r.response.music[1].url = r.saves[1].publicUrl
            /\ r.saves[1].fileSize = o.size
            /\ r.saves[1].contentType = o.contentType

\* C13 witness: a record was saved for a confirmation whose body claimed a size
\* other than that of the object in storage
C13_Witness ==
    /\ op = "confirm" /\ response.statusCode = 200
    /\ saved # <<>>
    /\ event.body.json.fileSize = Some(1)
    /\ HasObject(s3, saved[Len(saved)].s3Key)
    /\ saved[Len(saved)].fileSize = ObjectAt(s3, saved[Len(saved)].s3Key).size
    /\ saved[Len(saved)].fileSize # 1

\* C14 (as claimed): upload-complete answers 401 to a missing or invalid credential,
\* 404 when the key holds no object in storage, and 500 when the storage query fails
\* for another reason.
C14_ConfirmTaxonomy ==
    op = "confirm" =>
        /\ event.authorization \notin GoodAuthHeaders => response.statusCode = 401
        /\ (event.authorization \in GoodAuthHeaders /\ TruthyStr(ConfirmedKey)
              /\ ~HasObject(s3, ConfirmedKey[1]))
               => response.statusCode \in {404, 500}
        /\ response.statusCode = 404 => ~HasObject(s3, ConfirmedKey[1])

\* a PUT that storage refused, or that failed without an answer
PutFailed(e) == IsAnswer(e, "put") /\ ~Is2xx(e.status)

\* in the calls of one run: a failed PUT is the last call, every PUT uses the grant
\* answered just before it, and the first call is a grant request
OnePutPerGrant(log) ==
    /\ \A j \in 1..Len(log) : PutFailed(log[j]) => j = Len(log)
    /\ \A j \in 1..Len(log) :
           IsRequest(log[j], "put") =>
               /\ j > 1 /\ IsAnswer(log[j - 1], "grant") /\ Is2xx(log[j - 1].status)
               /\ log[j - 1].key = log[j].key
    /\ log # <<>> => IsRequest(log[1], "grant")

C15_State ==
    /\ OnePutPerGrant(net) /\ OnePutPerGrant(anet)
    /\ Cardinality({j \in 1..Len(net) : IsRequest(net[j], "put")}) <= 1
    /\ (net # <<>> /\ PutFailed(net[Len(net)]))
           => pc = "done" /\ uploadState.status \in {"error", "idle"}
    /\ (anet # <<>> /\ PutFailed(anet[Len(anet)]))
           => apc = "done" /\ uploadStatus \in {"error", "idle"}

\* C15: a PUT that is not answered 2xx ends the run as failed and is its last call;
\* every PUT uses the grant answered just before it, so no uploadUrl is PUT to twice;
\* a run started after a failure starts from an empty list of calls, whose first
\* call is a grant request.
C15_FailedPutIsFinal ==
    /\ []C15_State
    /\ [][(net' # net /\ net' # <<>> /\ PutFailed(net'[Len(net')]))
              => uploadState'.status = "error"]_vars
    /\ [][(anet' # anet /\ anet' # <<>> /\ PutFailed(anet'[Len(anet')]))
              => uploadStatus' = "error"]_vars
    /\ [][(pc = "done" /\ pc' # "done") => net' = <<>>]_vars
    /\ [][(apc = "done" /\ apc' # "done") => anet' = <<>>]_vars

\* C15 witness: on native, storage answered the PUT with 403 and the run failed
C15_Witness ==
    /\ platform = "native" /\ pc = "done"
    /\ net # <<>> /\ IsAnswer(net[Len(net)], "put") /\ net[Len(net)].status = 403
    /\ uploadState.status = "error"
    /\ uploadState.errorMessage = Some("Failed to upload to S3")

\* the statuses with which the upload-url Lambda refuses a request
GrantRefusals == {400, 401, 500}

GrantRefused(e) == IsAnswer(e, "grant") /\ e.status \in GrantRefusals

\* in the calls of one run, a refused grant request is the last call, and no PUT and
\* no upload-complete request was sent for it
RefusalEndsRun(log) ==
    \A j \in 1..Len(log) :
        GrantRefused(log[j]) =>
            /\ j = Len(log)
            /\ IsRequest(log[j - 1], "grant")
            /\ \A i \in 1..Len(log) : i >= j - 1 => log[i].call = "grant"

C16_State ==
    /\ RefusalEndsRun(net) /\ RefusalEndsRun(anet)
    /\ (net # <<>> /\ GrantRefused(net[Len(net)])) =>
           /\ Len(net) = 2 /\ pc = "done"
           /\ response.statusCode = net[Len(net)].status
           /\ uploadState.status \in {"error", "idle"}
           /\ uploadState.status = "error" =>
                  response.error # None /\ uploadState.errorMessage = response.error
    /\ (anet # <<>> /\ GrantRefused(anet[Len(anet)])) =>
           /\ apc = "done"
           /\ response.statusCode = anet[Len(anet)].status
           /\ uploadStatus \in {"error", "idle"}
           /\ uploadStatus = "error" =>
                  response.error # None /\ errorMessage = response.error

\* C16: when the upload-url Lambda answers a grant request with 401, 400 or 500, the
\* upload of either modal ends in the error state showing the reason string of the
\* answer unchanged; the refused request is the last call of the run: no PUT, no
\* upload-complete request and no second grant request follow.
C16_RefusedGrantEndsRun ==
    /\ []C16_State
    /\ [][(net' # net /\ GrantRefused(net'[Len(net')]))
              => uploadState' = [status |-> "error", progress |-> 0,
                                 fileName |-> Some(file.name),
                                 errorMessage |-> response'.error]]_vars
    /\ [][(anet' # anet /\ anet' # <<>> /\ GrantRefused(anet'[Len(anet')]))
              => uploadStatus' = "error" /\ errorMessage' = response'.error]_vars

\* C16 witness: an expired token was refused with 401 and the modal shows the reason
C16_Witness ==
    /\ authToken = Some("tok-expired") /\ pc = "done"
    /\ Len(net) = 2 /\ net[2].status = 401
    /\ uploadState.status = "error"
    /\ uploadState.errorMessage = Some("Invalid or expired token")

\* the reason strings the two handlers write themselves
HandlerReasons ==
    {"Unauthorized", "No authorization token provided", "Invalid or expired token",
     "fileName is required", "fileType is required", "key is required",
     "File size exceeds maximum allowed (100MB)", "File not found in S3",
     "Internal server error"}
    \cup {"Unsupported file type: " \o t[1] : t \in {x \in FileTypes : x # None}}

\* C17 (as claimed): every error body carries a reason from the fixed set of the
\* handlers' own reason strings; the text of an exception of the signing, storage or
\* persistence infrastructure, or of request parsing, never appears in a response.
C17_ReasonsAreCoarse ==
    (op \in {"grant", "confirm"} /\ response.statusCode >= 400) =>
        /\ response.error # None
        /\ response.error[1] \in HandlerReasons

\* a step in which the Lambda answers 200 to the request it answered 200 just before:
\* same Authorization header, same body
SecondGrantOfSameFile ==
    /\ op = "none" /\ op' = "grant"
    /\ response.statusCode = 200 /\ response'.statusCode = 200
    /\ event' = event

\* C18 (as claimed): a second grant request for the same file, from the same caller,
\* is answered with a key different from the first one, and the signed URLs issued
\* before stay as they were.
C18_SecondGrantDiffers ==
    [][SecondGrantOfSameFile => (response'.key # response.key /\ urls \subseteq urls')]_vars

\* the characters of [A-Za-z0-9._-]
StorageSafe == {UpperCase[i] : i \in 1..26} \cup {LowerCase[i] : i \in 1..26} \cup Digits
                   \cup {".", "_", "-"}

\* t is name with every character outside [A-Za-z0-9._-] replaced by "_"
IsSanitized(t, name) ==
    /\ Len(t) = Len(name)
    /\ \A i \in 1..Len(name) :
           SubSeq(t, i, i) = IF SubSeq(name, i, i) \in StorageSafe THEN SubSeq(name, i, i)
                             ELSE "_"

\* C19: a grant answered 200 to a request without (non-empty) s3Key has the key
\* music/{id of the verified caller}/{timestamp}-{random}-{sanitized fileName}; it
\* starts with music/{id}/ and, for a fileName of allowed characters only, ends with
\* fileName.
C19_GeneratedKeyForm ==
    (op = "grant" /\ response.statusCode = 200 /\ ~TruthyStr(event.body.json.s3Key)) =>
        LET key  == response.key[1]
            name == event.body.json.fileName[1]
            id   == verifyToken(event.authorization).val.id[1]
            head == "music/" \o ToString(id) \o "/"
        IN  /\ \E ts \in Timestamps, r \in RandomStrings :
                   LET pre == head \o ToString(ts) \o "-" \o r \o "-" IN
                   /\ StartsWith(key, pre)
                   /\ IsSanitized(SubSeq(key, Len(pre) + 1, Len(key)), name)
            /\ StartsWith(key, head)
            /\ (\A i \in 1..Len(name) : SubSeq(name, i, i) \in StorageSafe)
                   => SubSeq(key, Len(key) - Len(name) + 1, Len(key)) = name

\* C19 witness: a file name with a blank got a generated key
C19_Witness ==
    /\ op = "grant" /\ response.statusCode = 200
    /\ event.body.json.s3Key = None
    /\ event.body.json.fileName = Some("my song.mp3")
    /\ response.key = Some("music/1/1700000000-k3x9q-my_song.mp3")

\* what the claim expects, written out for the albums of the model
ExpectedPrefix == [n \in {"My Album", "Hits & More!"} |->
                       IF n = "My Album" THEN "music/my-album" ELSE "music/hits-more-"]
ExpectedCoverExt == [n \in {"cover.jpg", "Art.PNG"} |-> IF n = "cover.jpg" THEN "jpg" ELSE "png"]
ExpectedTitle == [n \in {"a.mp3", "Artist - b.wav"} |-> IF n = "a.mp3" THEN "a" ELSE "Artist - b"]
TwoDigits == <<"01", "02", "03", "04">>

\* the key the claim gives to the cover (i = 0) and to track i
ExpectedKey(a, i) ==
    IF i = 0 THEN ExpectedPrefix[a.albumName] \o "/cover." \o ExpectedCoverExt[a.cover.name[1]]
    ELSE ExpectedPrefix[a.albumName] \o "/" \o TwoDigits[i] \o ". " \o a.songs[i].name

\* the PUT requests of the run so far, in the order they were sent
PutsOf(log) == SelectSeq(log, LAMBDA e : e.call = "put" /\ e.phase = "request")

\* C20: the PUTs of uploadAlbum go, in this order, to {prefix}/cover.{ext} and to
\* {prefix}/{i, two digits}. {name of track i} for i = 1..n, with prefix = music/ +
\* the lowercased title with runs of non-alphanumerics replaced by "-"; the manifest
\* PUT after them has n songs in the same order, song i with the track's file name
\* without extension as title and the URL of key i.
C20_AlbumLayout ==
    LET puts == PutsOf(anet)
        n == Len(album.songs) IN
    /\ Len(puts) <= n + 2
    /\ \A k \in 1..Len(puts) :
           IF k <= n + 1
           THEN puts[k].key = Some(ExpectedKey(album, k - 1)) /\ puts[k].body = None
           ELSE LET m == puts[k].body[1] IN
                /\ Len(m.songs) = n
                /\ \A i \in 1..n :
                       /\ m.songs[i].title = ExpectedTitle[album.songs[i].name]
                       /\ m.songs[i].url = ManifestBase \o ExpectedKey(album, i)

\* C20 witness: the album "Hits & More!" with cover Art.PNG and two tracks is uploaded
C20_Witness ==
    /\ apc = "done" /\ uploadStatus = "success"
    /\ album.albumName = "Hits & More!" /\ album.cover.name = Some("Art.PNG")
    /\ Len(album.songs) = 2 /\ album.songs[2].name = "Artist - b.wav"
    /\ bucket = {"music/hits-more-/cover.png",
                 "music/hits-more-/01. " \o album.songs[1].name,
                 "music/hits-more-/02. Artist - b.wav",
                 "music/hits-more-/metadata.json"}
    /\ Len(PutsOf(anet)) = 4
    /\ PutsOf(anet)[4].body[1].songs[2] =
           [title |-> "Artist - b",
            url |-> ManifestBase \o "music/hits-more-/02. Artist - b.wav"]

\* the words by which a message can name item i of the album: the cover, the
\* track (by the word, its number or its file name), or the manifest
ItemWords(a, i) ==
    IF i = 0 THEN {"cover", "Cover"}
    ELSE IF i = ManifestIndex(a) THEN {"metadata", "manifest", "Manifest"}
    ELSE {"track", "Track", "song", "Song", PadStart2(i), ToString(i), a.songs[i].name}

\* C21 (as claimed): when an item of an album upload fails, the message shown names
\* the item that failed, for every position of the failing item.
C21_FailureNamesItem ==
    (apc = "done" /\ uploadStatus = "error" /\ anet # <<>>) =>
        /\ errorMessage # None
        /\ \E w \in ItemWords(album, idx) : Includes(errorMessage[1], w)

\* C22 (as claimed): the title and artist of a saved record are derived from the file
\* name in the object's storage metadata whenever storage holds one, not from the
\* fileName of the upload-complete body.
C22_TitleFromStorageName ==
    \A i \in 1..Len(saved) :
        \A o \in s3 :
            (o.key = saved[i].s3Key /\ o.metadata.originalfilename # "") =>
                LET m == extractMetadata(o.metadata.originalfilename, o.metadata) IN
                /\ saved[i].title = m.title
                /\ saved[i].artist = m.artist

\* C23 (as claimed): a grant request with fileType application/octet-stream is
\* answered 200 only if the extension of fileName is a supported audio extension;
\* otherwise (x.exe) the answer is 400 with an unsupported-type error and no URL.
C23_OctetStreamNeedsAudioExtension ==
    (/\ op = "grant" /\ response.statusCode \notin {401, 500}
     /\ event.body.json.fileType = Some("application/octet-stream")
     /\ TruthyStr(event.body.json.fileName)
     /\ ExtensionOf(event.body.json.fileName[1]) \notin SUPPORTED_EXTENSIONS
     /\ ~(TruthyNum(event.body.json.fileSize) /\ event.body.json.fileSize[1] > MAX_FILE_SIZE))
        => /\ response.statusCode = 400
           /\ response.error # None /\ Includes(response.error[1], "Unsupported")
           /\ response.uploadUrl = None

\* the user is logged in: login or signup stored the token and logout did not remove it
LoggedIn == album.token # None

\* C24 (as claimed): when the music upload modal reads the token while the user is
\* logged in, it finds the token that login wrote: the grant request is sent and the
\* upload does not fail with "Authentication required".
C24_UploadFindsLoginToken ==
    [][(pc = "getToken" /\ pc' # "getToken" /\ LoggedIn) =>
           /\ pc' = "awaitGrant"
           /\ net' # <<>> /\ net'[Len(net')].call = "grant"
           /\ uploadState'.status # "error"]_vars

\* the run of uploadAlbum that the user cancelled is still between two of its awaits
CancelledAlbumRunning == closed # None /\ apc \notin {"idle", "done"}

CancelledSingleRunning == cancelled # None /\ pc \notin {"idle", "done"}

\* C26 (as claimed): after the user cancelled an upload of the single-file modal and
\* the state was reset to idle, the continuation of the cancelled run never changes
\* the state again, on web and on native.
C26_StaysIdleAfterCancel ==
    [][CancelledSingleRunning => uploadState' = uploadState]_vars

\* structured uploads that differ from album a in owner or in title: the same album
\* of another user, and an album of any user titled "my album"
OtherUploads(a) ==
    {b \in {[a EXCEPT !.albumName = t, !.token = Some(TokenOf(u))] :
                t \in {a.albumName, "my album"}, u \in Users} :
         b.albumName # a.albumName \/ b.token # a.token}

\* the keys the upload-url Lambda grants to the items of the structured upload b
GrantedKeysOf(b) ==
    {r.key : r \in {x \in {GrantHandler(GrantEventOf(b.token[1], GrantRequestBody(b, i)),
                                         [timestamp |-> 1700000001, randomString |-> "p0z",
                                          signerOk |-> TRUE]) : i \in 0..ManifestIndex(b)} :
                        x.statusCode = 200}}

\* C27 (as claimed): a key requested by an album upload is never granted to a
\* structured upload that differs from it in owner or in album title.
C27_KeysOfUploadsDisjoint ==
    \A j \in 1..Len(anet) :
        (IsRequest(anet[j], "grant") /\ album.token # None) =>
            \A b \in OtherUploads(album) : anet[j].key \notin GrantedKeysOf(b)

\* C28 (as claimed): for each object key at most one record is handed to
\* saveMusicRecord; a second ConfirmUpload for a key already confirmed, by the same
\* or by another caller, creates no second record.
C28_OneRecordPerKey ==
    \A i, j \in 1..Len(saved) : i # j => saved[i].s3Key # saved[j].s3Key

\* C29 (as claimed): a file that validateFile accepts is never refused by the upload-url
\* Lambda as an invalid argument: its grant request is not answered 400.
C29_ClientAcceptsImpliesServerAccepts ==
    (validateFile(file) = None /\ Len(net) >= 2 /\ IsAnswer(net[2], "grant"))
        => net[2].status # 400

\* C30 (as claimed): every sound that was created is either the one in soundRef or
\* has been unloaded, so at most one loaded sound exists at any time.
C30_OneLoadedSound ==
    /\ Cardinality(loaded) <= 1
    /\ \A k \in loaded : soundRef = Some(k)

====
